---- MODULE Spec2Model ----
(***************************************************************************)
(* A model of gplay (src/src/lib.rs): one invocation of GplayTool::run,    *)
(* which parses the command line, obtains a bearer token and dispatches    *)
(* to list_bundles, list_tracks or upload_bundle.  Every remote call is a  *)
(* step; its response is chosen by the remote service and the transport.   *)
(***************************************************************************)
EXTENDS Integers, Sequences, FiniteSets, TLC

VARIABLES
    pc,         \* position of the invocation in run / the dispatched command
    cmd,        \* cli.command: "ListBundles", "ListTracks", "Upload", "None"
    tokens,     \* number of bearer tokens requested so far
    edit_id,    \* the local `id` of the opened edit ("" before it is known)
    bundle,     \* the local `bundle` decoded from the upload response
    calls,      \* the remote calls issued so far, each with its response
    file_reads, \* number of std::fs::read calls on the bundle file
    log,        \* lines written through GplayLog, in order
    result,     \* what run returns: Running, Ok or Err with its error
    exit_status,\* the process exit status set by main (-1 while it runs)
    remote      \* the remote service: edit state, pending edit, catalog

vars == <<pc, cmd, tokens, edit_id, bundle, calls, file_reads, log, result,
          exit_status, remote>>

----------------------------------------------------------------------------
(* Bounds of the model *)

MaxBundles == 2     \* longest bundle list in a list response
MaxTracks == 2      \* longest track list in a list response

----------------------------------------------------------------------------
(* Wire shapes: the JSON bodies a response may carry *)

NoBundle == [version_code |-> 0, sha256 |-> ""]

\* struct Bundle { versionCode, sha256 }
Bundle == { [version_code |-> 5, sha256 |-> "aa"],
            [version_code |-> 6, sha256 |-> "bb"] }

\* struct Track { track, releases } of struct Release { status, versionCodes }:
\* the tracks a list response may hold.  has_version_codes is FALSE when the
\* JSON object of the release carries no versionCodes member.
Track == { [name |-> "internal", releases |-> <<[status |-> "draft", has_version_codes |-> TRUE]>>],
           [name |-> "beta", releases |-> <<[status |-> "completed", has_version_codes |-> FALSE]>>] }

SeqsUpTo(S, n) == UNION { [1..k -> S] : k \in 0..n }

\* A JSON body: t names its shape, the other members are its content.
Body(t, id, bundles, tracks, b, message) ==
    [t |-> t, id |-> id, bundles |-> bundles, tracks |-> tracks,
     version_code |-> b.version_code, sha256 |-> b.sha256, message |-> message]

EmptyBody == Body("other", "", <<>>, <<>>, NoBundle, "")

\* struct ErrorResponse { error: ApiError { message } }
ErrorResponse == { Body("error", "", <<>>, <<>>, NoBundle, m) : m \in {"track not found", "forbidden"} }

\* Bodies a non-success (or unexpected) response may carry.
OtherBodies == ErrorResponse \cup {EmptyBody}

\* struct EditInsertResult { id }
EditInsertResult == { Body("id", "e1", <<>>, <<>>, NoBundle, "") }

\* struct EditBundlesList { bundles }
EditBundlesList == { Body("bundles", "", bs, <<>>, NoBundle, "") : bs \in SeqsUpTo(Bundle, MaxBundles) }

\* struct TracksList { tracks }
TracksList == { Body("tracks", "", <<>>, ts, NoBundle, "") : ts \in SeqsUpTo(Track, MaxTracks) }

\* the upload response: a Bundle
BundleBody == { Body("bundle", "", <<>>, <<>>, b, "") : b \in Bundle }

\* the track PUT response: a Track (never decoded by the client)
TrackBody == { Body("track", "", <<>>, <<>>, NoBundle, "") }

----------------------------------------------------------------------------
(* Transport: responses and their interpretation *)

Statuses == {200, 404}

\* reqwest: StatusCode::is_success
is_success(status) == status >= 200 /\ status < 300

\* reqwest: StatusCode::to_string, "<code> <canonical reason>"
status_to_string(status) ==
    CASE status = 200 -> "200 OK"
      [] status = 404 -> "404 Not Found"
      [] OTHER -> "unknown"

\* A response that arrived with an HTTP status.
Http(status, body) == [kind |-> "http", status |-> status, body |-> body]

\* send().await returned Err: connection failure, or the request timeout.
TransportError == [kind |-> "transport", status |-> 0, body |-> EmptyBody]
TimeoutError == [kind |-> "timeout", status |-> 0, body |-> EmptyBody]

\* The responses to a call whose success body has one of the shapes in ok.
Responses(ok) ==
    { Http(s, b) : s \in Statuses, b \in ok \cup OtherBodies } \cup {TransportError}

Succeeded(r) == r.kind = "http" /\ is_success(r.status)

\* response.json::<T>(): the body decodes when it has the shape of T.
\* lib.rs declares Release.version_codes as Vec<String>, without a default,
\* so a release without versionCodes does not decode.
DecodesAs(body, t) ==
    /\ body.t = t
    /\ t = "tracks" =>
          \A i \in 1..Len(body.tracks) :
             \A j \in 1..Len(body.tracks[i].releases) :
                body.tracks[i].releases[j].has_version_codes

\* The message an error log line carries for a non-success response r:
\* the ErrorResponse message when the body decodes, else the status text.
ErrorMessage(r) ==
    IF DecodesAs(r.body, "error") THEN r.body.message ELSE status_to_string(r.status)

----------------------------------------------------------------------------
(* Records of what the invocation did *)

Call(op, method, path, r) == [op |-> op, method |-> method, path |-> path, resp |-> r]

Line(level, text, code, str) == [level |-> level, text |-> text, code |-> code, str |-> str]

Running == [status |-> "Running", err |-> ""]
Ok == [status |-> "Ok", err |-> ""]
Err(e) == [status |-> "Err", err |-> e]

\* The error a failed send().await carries.
SendError(r) == Err(r.kind)

----------------------------------------------------------------------------
(* The remote service *)

NoChange == [bundle |-> FALSE, track |-> FALSE]

InitRemote == [edit |-> "none", pending |-> NoChange, catalog |-> NoChange]

\* Whether the service carried out a request: always when it answered with
\* a success status, never when it answered with another status, and either
\* way when the answer was lost in transport.
Applied(r) == IF r.kind = "http" THEN {is_success(r.status)} ELSE BOOLEAN

RemoteOpen(rem) == [rem EXCEPT !.edit = "open"]

RemoteUpload(rem) ==
    IF rem.edit = "open" THEN [rem EXCEPT !.pending.bundle = TRUE] ELSE rem

RemoteTrack(rem) ==
    IF rem.edit = "open" THEN [rem EXCEPT !.pending.track = TRUE] ELSE rem

RemoteCommit(rem) ==
    IF rem.edit = "open"
    THEN [rem EXCEPT !.edit = "committed",
                     !.catalog = [bundle |-> rem.catalog.bundle \/ rem.pending.bundle,
                                  track |-> rem.catalog.track \/ rem.pending.track],
                     !.pending = NoChange]
    ELSE rem

RemoteDelete(rem) ==
    IF rem.edit = "open"
    THEN [rem EXCEPT !.edit = "deleted", !.pending = NoChange]
    ELSE rem

\* DELETE on a path: the plain edit path discards the edit; the service has
\* no DELETE operation on the ":commit" path.
RemoteDeletePath(rem, path) == IF path = "edit" THEN RemoteDelete(rem) ELSE rem

----------------------------------------------------------------------------
(* Initial state *)

Init ==
    /\ pc = "run"
    /\ cmd = "None"
    /\ tokens = 0
    /\ edit_id = ""
    /\ bundle = NoBundle
    /\ calls = <<>>
    /\ file_reads = 0
    /\ log = <<>>
    /\ result = Running
    /\ exit_status = -1
    /\ remote = InitRemote

Return(r) == pc' = "done" /\ result' = r

----------------------------------------------------------------------------
(* GplayTool::run *)

Commands == {"ListBundles", "ListTracks", "Upload", "None"}

\* run_parse with the parse error propagated like every other error of run
\* (`?` instead of the match), and written by nobody.
run_parse_propagated ==
    /\ pc = "run"
    /\ \/ /\ log' = Append(log, Line("error", "clap error", 0, ""))
          /\ Return(Err("usage"))
          /\ UNCHANGED cmd
       \/ \E c \in {"ListBundles", "ListTracks", "Upload", "None"} :
             /\ cmd' = c
             /\ log' = Append(log, Line("output", "Requesting OAuth token with Android Publisher scope", 0, ""))
             /\ pc' = "token"
             /\ UNCHANGED result
    /\ UNCHANGED <<exit_status, tokens, edit_id, bundle, calls, file_reads, remote>>

\* Cli::try_parse_from: on error the parser's message is written through
\* output and run returns Ok; otherwise the token request is announced.
run_parse ==
    /\ pc = "run"
    /\ \/ /\ log' = Append(log, Line("output", "clap error", 0, ""))
          /\ Return(Ok)
          /\ UNCHANGED cmd
       \/ \E c \in Commands :
             /\ cmd' = c
             /\ log' = Append(log, Line("output", "Requesting OAuth token with Android Publisher scope", 0, ""))
             /\ pc' = "token"
             /\ UNCHANGED result
    /\ UNCHANGED <<exit_status, tokens, edit_id, bundle, calls, file_reads, remote>>

\* CustomServiceAccount::from_file and get_token, each propagated with `?`.
run_token ==
    /\ pc = "token"
    /\ \/ /\ Return(Err("credentials file"))
          /\ UNCHANGED tokens
       \/ /\ tokens' = tokens + 1
          /\ \/ Return(Err("token"))
             \/ pc' = "dispatch" /\ UNCHANGED result
    /\ UNCHANGED <<exit_status, cmd, edit_id, bundle, calls, file_reads, log, remote>>

\* match &cli.command
run_dispatch ==
    /\ pc = "dispatch"
    /\ \/ cmd = "ListBundles" /\ pc' = "list_bundles" /\ UNCHANGED result
       \/ cmd = "ListTracks" /\ pc' = "list_tracks" /\ UNCHANGED result
       \/ cmd = "Upload" /\ pc' = "upload_bundle" /\ UNCHANGED result
       \/ cmd = "None" /\ Return(Ok)
    /\ UNCHANGED <<exit_status, cmd, tokens, edit_id, bundle, calls, file_reads, log, remote>>

----------------------------------------------------------------------------
(* Steps shared by the three commands (the code repeats them verbatim) *)

\* OpenEdit without the else branch of the status test: a non-success open
\* is logged and the command goes on with the next step.
OpenEdit_continues(here, next) ==
    /\ pc = here
    /\ \E r \in Responses(EditInsertResult) : \E applied \in Applied(r) :
          /\ calls' = Append(calls, Call("open", "POST", "edits", r))
          /\ remote' = IF applied THEN RemoteOpen(remote) ELSE remote
          /\ IF r.kind # "http"
             THEN /\ log' = Append(log, Line("output", "Opening an edit", 0, ""))
                  /\ Return(SendError(r))
                  /\ UNCHANGED edit_id
             ELSE IF ~is_success(r.status)
             THEN /\ log' = log \o << Line("output", "Opening an edit", 0, ""),
                                      Line("error", "Could not open edit", 0, "") >>
                  /\ pc' = next
                  /\ UNCHANGED <<edit_id, result>>
             ELSE IF ~DecodesAs(r.body, "id")
             THEN /\ log' = Append(log, Line("output", "Opening an edit", 0, ""))
                  /\ Return(Err("decode"))
                  /\ UNCHANGED edit_id
             ELSE /\ log' = Append(log, Line("output", "Opening an edit", 0, ""))
                  /\ edit_id' = r.body.id
                  /\ pc' = next
                  /\ UNCHANGED result
    /\ UNCHANGED <<exit_status, cmd, tokens, bundle, file_reads>>

\* "Opening an edit", POST {EDIT_URL}/{package_name}/edits, then the id.
\* A send error is returned with `?`; a non-success status is logged and the
\* command returns Ok; an undecodable id is returned with `?`.
OpenEdit(here, next) ==
    /\ pc = here
    /\ \E r \in Responses(EditInsertResult) : \E applied \in Applied(r) :
          /\ calls' = Append(calls, Call("open", "POST", "edits", r))
          /\ remote' = IF applied THEN RemoteOpen(remote) ELSE remote
          /\ IF r.kind # "http"
             THEN /\ log' = Append(log, Line("output", "Opening an edit", 0, ""))
                  /\ Return(SendError(r))
                  /\ UNCHANGED edit_id
             ELSE IF ~is_success(r.status)
             THEN /\ log' = log \o << Line("output", "Opening an edit", 0, ""),
                                      Line("error", "Could not open edit", 0, "") >>
                  /\ Return(Ok)
                  /\ UNCHANGED edit_id
             ELSE IF ~DecodesAs(r.body, "id")
             THEN /\ log' = Append(log, Line("output", "Opening an edit", 0, ""))
                  /\ Return(Err("decode"))
                  /\ UNCHANGED edit_id
             ELSE /\ log' = Append(log, Line("output", "Opening an edit", 0, ""))
                  /\ edit_id' = r.body.id
                  /\ pc' = next
                  /\ UNCHANGED result
    /\ UNCHANGED <<exit_status, cmd, tokens, bundle, file_reads>>

\* "Deleting edit" (listing commands only), DELETE on `path`, a warning on a
\* non-success status, then Ok.  A send error is returned with `?`.
DeleteEdit(here, path, announce) ==
    /\ pc = here
    /\ \E r \in Responses({EmptyBody}) : \E applied \in Applied(r) :
          /\ calls' = Append(calls, Call("delete", "DELETE", path, r))
          /\ remote' = IF applied THEN RemoteDeletePath(remote, path) ELSE remote
          /\ IF r.kind # "http"
             THEN /\ log' = log \o announce
                  /\ Return(SendError(r))
             ELSE IF ~is_success(r.status)
             THEN /\ log' = log \o announce \o
                               << Line("warning", "Unable to delete edit", r.status, "") >>
                  /\ Return(Ok)
             ELSE /\ log' = log \o announce
                  /\ Return(Ok)
    /\ UNCHANGED <<exit_status, cmd, tokens, edit_id, bundle, file_reads>>

----------------------------------------------------------------------------
(* GplayTool::list_bundles *)

\* BundleLines iterating the bundles from the last to the first.
BundleLines_reversed(bundles) ==
    [i \in 1..Len(bundles) |->
        Line("output", "Version", bundles[Len(bundles) + 1 - i].version_code,
                                  bundles[Len(bundles) + 1 - i].sha256)]

\* for bundle in edit_bundles_list.bundles.iter(): "Version {} [{}]"
BundleLines(bundles) ==
    [i \in 1..Len(bundles) |->
        Line("output", "Version", bundles[i].version_code, bundles[i].sha256)]

list_bundles_open == OpenEdit("list_bundles", "list_bundles_get")

\* GET .../edits/{id}/bundles: a send error or an undecodable success body
\* is returned with `?`; a non-success status is logged; in the last case
\* and on success the command goes on to delete the edit.
list_bundles_get ==
    /\ pc = "list_bundles_get"
    /\ \E r \in Responses(EditBundlesList) :
          /\ calls' = Append(calls, Call("list", "GET", "bundles", r))
          /\ IF r.kind # "http"
             THEN Return(SendError(r)) /\ UNCHANGED log
             ELSE IF ~is_success(r.status)
             THEN /\ log' = Append(log, Line("error", "Unable to get list of bundles", 0, ""))
                  /\ pc' = "list_bundles_delete"
                  /\ UNCHANGED result
             ELSE IF ~DecodesAs(r.body, "bundles")
             THEN Return(Err("decode")) /\ UNCHANGED log
             ELSE /\ log' = log \o BundleLines(r.body.bundles)
                  /\ pc' = "list_bundles_delete"
                  /\ UNCHANGED result
    /\ UNCHANGED <<exit_status, cmd, tokens, edit_id, bundle, file_reads, remote>>

\* list_bundles_delete closing the edit through the commit endpoint, as
\* upload_bundle does, instead of deleting it.
list_bundles_delete_commits ==
    /\ pc = "list_bundles_delete"
    /\ \E r \in Responses({EmptyBody}) : \E applied \in Applied(r) :
          /\ calls' = Append(calls, Call("commit", "POST", "commit", r))
          /\ remote' = IF applied THEN RemoteCommit(remote) ELSE remote
          /\ log' = Append(log, Line("output", "Deleting edit", 0, ""))
          /\ IF r.kind # "http" THEN Return(SendError(r)) ELSE Return(Ok)
    /\ UNCHANGED <<exit_status, cmd, tokens, edit_id, bundle, file_reads>>

list_bundles_delete ==
    DeleteEdit("list_bundles_delete", "edit", << Line("output", "Deleting edit", 0, "") >>)

----------------------------------------------------------------------------
(* GplayTool::list_tracks *)

\* for track in tracks_list.tracks.iter(): "Track '{}'"
TrackLines(tracks) ==
    [i \in 1..Len(tracks) |-> Line("output", "Track", 0, tracks[i].name)]

list_tracks_open == OpenEdit("list_tracks", "list_tracks_get")

list_tracks_get ==
    /\ pc = "list_tracks_get"
    /\ \E r \in Responses(TracksList) :
          /\ calls' = Append(calls, Call("list", "GET", "tracks", r))
          /\ IF r.kind # "http"
             THEN Return(SendError(r)) /\ UNCHANGED log
             ELSE IF ~is_success(r.status)
             THEN /\ log' = Append(log, Line("error", "Unable to get list of tracks", 0, ""))
                  /\ pc' = "list_tracks_delete"
                  /\ UNCHANGED result
             ELSE IF ~DecodesAs(r.body, "tracks")
             THEN Return(Err("decode")) /\ UNCHANGED log
             ELSE /\ log' = log \o TrackLines(r.body.tracks)
                  /\ pc' = "list_tracks_delete"
                  /\ UNCHANGED result
    /\ UNCHANGED <<exit_status, cmd, tokens, edit_id, bundle, file_reads, remote>>

list_tracks_delete ==
    DeleteEdit("list_tracks_delete", "edit", << Line("output", "Deleting edit", 0, "") >>)

----------------------------------------------------------------------------
(* GplayTool::upload_bundle *)

\* upload_next with the `if response.status().is_success()` of the upload
\* response dropped: the track PUT follows whatever the upload status was.
upload_next_unguarded(here, ok) ==
    CASE here = "upload_post" -> "upload_put"
      [] here = "upload_put" -> "upload_commit"
      [] here = "upload_commit" -> "done"
      [] OTHER -> "done"

\* upload_next with a rollback added to the failed-commit branch.
upload_next_commit_rollback(here, ok) ==
    CASE here = "upload_post" -> IF ok THEN "upload_put" ELSE "upload_delete"
      [] here = "upload_put" -> "upload_commit"
      [] here = "upload_commit" -> IF ok THEN "done" ELSE "upload_delete"
      [] OTHER -> "done"

\* upload_next with the commit placed right after the upload, the track PUT
\* left out.
upload_next_skip_put(here, ok) ==
    CASE here = "upload_post" -> IF ok THEN "upload_commit" ELSE "upload_delete"
      [] here = "upload_put" -> "upload_commit"
      [] here = "upload_commit" -> "done"
      [] OTHER -> "done"

\* The nesting of upload_bundle: the step that follows the step `here` once
\* its response has arrived, ok telling whether the status was a success.
\* "done" is the `Ok(())` at the end of the function.
upload_next(here, ok) ==
    CASE here = "upload_post" -> IF ok THEN "upload_put" ELSE "upload_delete"
      [] here = "upload_put" -> "upload_commit"
      [] here = "upload_commit" -> "done"
      [] OTHER -> "done"

Goto(next) ==
    IF next = "done" THEN Return(Ok) ELSE pc' = next /\ UNCHANGED result

upload_open == OpenEdit("upload_bundle", "upload_read")

\* std::fs::read(aab_file).context("Unable to read bundle file")?
upload_read ==
    /\ pc = "upload_read"
    /\ file_reads' = file_reads + 1
    /\ \/ Return(Err("Unable to read bundle file")) /\ UNCHANGED log
       \/ /\ log' = log \o << Line("output", "Read bundle file", 10, ""),
                              Line("output", "Uploading bundle", 0, "") >>
          /\ pc' = "upload_post"
          /\ UNCHANGED result
    /\ UNCHANGED <<exit_status, cmd, tokens, edit_id, bundle, calls, remote>>

\* POST {UPLOAD_URL}/.../bundles?uploadType=media with the request timeout.
upload_post ==
    /\ pc = "upload_post"
    /\ \E r \in Responses(BundleBody) \cup {TimeoutError} : \E applied \in Applied(r) :
          /\ calls' = Append(calls, Call("upload", "POST", "bundles", r))
          /\ remote' = IF applied THEN RemoteUpload(remote) ELSE remote
          /\ IF r.kind # "http"
             THEN Return(SendError(r)) /\ UNCHANGED <<log, bundle>>
             ELSE IF ~is_success(r.status)
             THEN /\ log' = Append(log, Line("error", "Unable to upload bundle file", r.status, ""))
                  /\ Goto(upload_next("upload_post", FALSE))
                  /\ UNCHANGED bundle
             ELSE IF ~DecodesAs(r.body, "bundle")
             THEN Return(Err("decode")) /\ UNCHANGED <<log, bundle>>
             ELSE /\ bundle' = [version_code |-> r.body.version_code, sha256 |-> r.body.sha256]
                  /\ log' = Append(log, Line("output", "Uploaded Version",
                                             r.body.version_code, r.body.sha256))
                  /\ Goto(upload_next("upload_post", TRUE))
    /\ UNCHANGED <<exit_status, cmd, tokens, edit_id, file_reads>>

\* PUT .../tracks/{track_name} with one draft release of the uploaded
\* version code.  A non-success status is logged; the function then goes on.
upload_put ==
    /\ pc = "upload_put"
    /\ \E r \in Responses(TrackBody) : \E applied \in Applied(r) :
          /\ calls' = Append(calls, Call("track", "PUT", "track", r))
          /\ remote' = IF applied THEN RemoteTrack(remote) ELSE remote
          /\ IF r.kind # "http"
             THEN Return(SendError(r)) /\ UNCHANGED log
             ELSE IF ~is_success(r.status)
             THEN /\ log' = Append(log, Line("error", "Unable to set track", 0, ErrorMessage(r)))
                  /\ Goto(upload_next("upload_put", FALSE))
             ELSE /\ Goto(upload_next("upload_put", TRUE))
                  /\ UNCHANGED log
    /\ UNCHANGED <<exit_status, cmd, tokens, edit_id, bundle, file_reads>>

\* POST .../edits/{id}:commit with Content-Length 0.
upload_commit ==
    /\ pc = "upload_commit"
    /\ \E r \in Responses({EmptyBody}) : \E applied \in Applied(r) :
          /\ calls' = Append(calls, Call("commit", "POST", "commit", r))
          /\ remote' = IF applied THEN RemoteCommit(remote) ELSE remote
          /\ IF r.kind # "http"
             THEN Return(SendError(r)) /\ UNCHANGED log
             ELSE IF is_success(r.status)
             THEN /\ log' = Append(log, Line("output", "Committed edit", 0, ""))
                  /\ Goto(upload_next("upload_commit", TRUE))
             ELSE /\ log' = Append(log, Line("error", "Failed to commit edit", 0, ErrorMessage(r)))
                  /\ Goto(upload_next("upload_commit", FALSE))
    /\ UNCHANGED <<exit_status, cmd, tokens, edit_id, bundle, file_reads>>

\* DELETE .../edits/{id}:commit after a non-success upload status.
upload_delete == DeleteEdit("upload_delete", "commit", <<>>)

----------------------------------------------------------------------------
(* main (src/bin/gplay.rs) *)

\* if let Err(error) = run(...).await { error!(logger, "{}", error); exit(1) }
\* and otherwise main returns, which is exit status 0.
main ==
    /\ pc = "done"
    /\ pc' = "exited"
    /\ IF result.status = "Err"
       THEN /\ log' = Append(log, Line("error", "fatal", 0, result.err))
            /\ exit_status' = 1
       ELSE /\ exit_status' = 0
            /\ UNCHANGED log
    /\ UNCHANGED <<cmd, tokens, edit_id, bundle, calls, file_reads, result, remote>>

----------------------------------------------------------------------------
(* The invocation *)

Next ==
    \/ run_parse
    \/ run_token
    \/ run_dispatch
    \/ list_bundles_open
    \/ list_bundles_get
    \/ list_bundles_delete
    \/ list_tracks_open
    \/ list_tracks_get
    \/ list_tracks_delete
    \/ upload_open
    \/ upload_read
    \/ upload_post
    \/ upload_put
    \/ upload_commit
    \/ upload_delete
    \/ main

Spec == Init /\ [][Next]_vars

----------------------------------------------------------------------------
(* Vocabulary of the properties *)

CallsOf(op) == SelectSeq(calls, LAMBDA c : c.op = op)
Count(op) == Len(CallsOf(op))
Issued(op) == Count(op) > 0

Done == pc = "done"
Listing == cmd \in {"ListBundles", "ListTracks"}

\* The open call returned a success status with a decodable id: the session
\* is open and the command knows its id.
SessionOpened == edit_id # ""

\* The upload POST of this invocation returned a success status with a
\* decodable Bundle.
UploadSucceeded ==
    /\ Issued("upload")
    /\ Succeeded(CallsOf("upload")[1].resp)
    /\ DecodesAs(CallsOf("upload")[1].resp.body, "bundle")

\* The bundle file could not be read: the read was attempted, the invocation
\* is over and no upload POST was issued.
FileReadFailed == file_reads = 1 /\ Done /\ ~Issued("upload")

\* The upload POST was issued and did not yield a Bundle.
UploadPostFailed == Issued("upload") /\ ~UploadSucceeded

\* The upload POST was issued and failed before any body was decoded.
UploadCallFailed == Issued("upload") /\ ~Succeeded(CallsOf("upload")[1].resp)

TrackSucceeded == Issued("track") /\ Succeeded(CallsOf("track")[1].resp)
TrackFailed == Issued("track") /\ ~Succeeded(CallsOf("track")[1].resp)
CommitFailed == Issued("commit") /\ ~Succeeded(CallsOf("commit")[1].resp)

\* The error of a failed call as the caller should see it: the message of
\* the response, or the send error.
CallError(r) == IF r.kind = "http" THEN Err(ErrorMessage(r)) ELSE SendError(r)

----------------------------------------------------------------------------
(* Properties *)

\* C1: when the invocation has ended, a session that was opened has had a
\* commit call or a delete call issued for it.
C1_OpenedSessionIsClosed ==
    (Done /\ SessionOpened) => (Issued("commit") \/ Issued("delete"))

\* C2: at the end of an upload invocation the committed catalog holds both
\* the new bundle and its track assignment, or neither.
C2_UploadAllOrNothing ==
    (Done /\ cmd = "Upload") => (remote.catalog.bundle = remote.catalog.track)

\* C3: if the upload POST succeeded and the track PUT failed, the finished
\* invocation has issued exactly one delete and no commit, and returns the
\* assignment error.
C3_TrackFailureRollsBack ==
    (Done /\ UploadSucceeded /\ TrackFailed) =>
        /\ Count("delete") = 1
        /\ Count("commit") = 0
        /\ result = CallError(CallsOf("track")[1].resp)

\* C4: if the upload step failed (file unreadable, non-success status,
\* transport error or timeout), the finished invocation has issued a delete
\* and returns the error of the upload step.
C4_UploadFailureRollsBack ==
    /\ FileReadFailed =>
          (Issued("delete") /\ result = Err("Unable to read bundle file"))
    /\ (Done /\ UploadCallFailed) =>
          (Issued("delete") /\ result = CallError(CallsOf("upload")[1].resp))

\* C5: at the end of an upload invocation, the commit call has been issued
\* if and only if the upload POST and the track PUT both succeeded.
C5_CommitIffBothSucceeded ==
    (Done /\ cmd = "Upload") => (Issued("commit") <=> (UploadSucceeded /\ TrackSucceeded))

\* C6: once the upload step has failed (file unreadable, non-success status,
\* transport error, timeout or undecodable body), no track PUT and no commit
\* call has been issued, in any state of the invocation.
C6_NoCallsAfterUploadFailure ==
    (FileReadFailed \/ UploadPostFailed) => (~Issued("track") /\ ~Issued("commit"))

\* C6 witness: an upload whose POST failed has run to its end.
C6_Witness == Done /\ UploadPostFailed /\ Issued("delete")

\* C7: in every state, the commit calls and delete calls issued so far are
\* at most one call in all.
C7_AtMostOneTerminalCall == Count("commit") + Count("delete") <= 1

\* C7 witness: an upload invocation has ended after a commit call that failed.
C7_Witness == Done /\ cmd = "Upload" /\ CommitFailed

\* C8: if the commit call failed, the finished invocation has issued no
\* delete and returns the commit error.
C8_CommitFailureIsReturned ==
    (Done /\ CommitFailed) =>
        (~Issued("delete") /\ result = CallError(CallsOf("commit")[1].resp))

\* C9: a listing command that opened a session has issued a delete call for
\* it by the time it returns, whatever the outcome of the list GET.
C9_ListingAlwaysDeletes ==
    (Done /\ Listing /\ SessionOpened) => Issued("delete")

\* list-bundles has ended and every call it issued got a success status and
\* a body of the expected shape.
ListBundlesAllSucceeded ==
    /\ Done /\ cmd = "ListBundles" /\ calls # <<>>
    /\ \A i \in 1..Len(calls) : Succeeded(calls[i].resp)
    /\ DecodesAs(calls[1].resp.body, "id")
    /\ Len(calls) >= 2 => DecodesAs(calls[2].resp.body, "bundles")

VersionLines == SelectSeq(log, LAMBDA l : l.text = "Version")

\* C10: when list-bundles ran with every call succeeding, it issued exactly
\* open, list GET, delete in this order, and wrote one output line per bundle
\* of the response, with its version code and digest, in response order.
C10_ListBundlesOutput ==
    ListBundlesAllSucceeded =>
        /\ Len(calls) = 3
        /\ calls[1].op = "open" /\ calls[2].op = "list" /\ calls[3].op = "delete"
        /\ Len(VersionLines) = Len(calls[2].resp.body.bundles)
        /\ \A i \in 1..Len(VersionLines) :
              /\ VersionLines[i].level = "output"
              /\ VersionLines[i].code = calls[2].resp.body.bundles[i].version_code
              /\ VersionLines[i].str = calls[2].resp.body.bundles[i].sha256

\* C10 witness: list-bundles succeeded on a response of two different bundles.
C10_Witness ==
    /\ ListBundlesAllSucceeded
    /\ Len(calls) >= 2
    /\ Len(calls[2].resp.body.bundles) = 2
    /\ calls[2].resp.body.bundles[1] # calls[2].resp.body.bundles[2]

\* The process has exited.
Exited == pc = "exited"

\* A step of the dispatched command failed: a call other than the delete
\* returned a non-success status or a send error, a success body did not
\* decode, or the bundle file could not be read.
StepFailed ==
    \/ \E i \in 1..Len(calls) :
          /\ calls[i].op # "delete"
          /\ \/ ~Succeeded(calls[i].resp)
             \/ calls[i].op = "open" /\ ~DecodesAs(calls[i].resp.body, "id")
             \/ calls[i].op = "list" /\ cmd = "ListBundles" /\ ~DecodesAs(calls[i].resp.body, "bundles")
             \/ calls[i].op = "list" /\ cmd = "ListTracks" /\ ~DecodesAs(calls[i].resp.body, "tracks")
             \/ calls[i].op = "upload" /\ ~DecodesAs(calls[i].resp.body, "bundle")
    \/ file_reads = 1 /\ ~Issued("upload") /\ result.status # "Running"

\* C11: when the process has exited after a step of the command failed, run
\* returned an error and the exit status is 1.
C11_FailureExitsNonZero ==
    (Exited /\ StepFailed) => (result.status = "Err" /\ exit_status = 1)

\* The parser's message has been written: the arguments did not parse.
ParseFailed == log # <<>> /\ log[1].text = "clap error"

\* C12: when the arguments did not parse, the parser's message was written
\* through output, run returned Ok, no token was requested and no remote
\* call was issued, up to the exit of the process.
C12_ParseErrorShortCircuits ==
    ParseFailed =>
        /\ log = << Line("output", "clap error", 0, "") >>
        /\ result = Ok
        /\ tokens = 0
        /\ calls = <<>>
        /\ pc \in {"done", "exited"}
        /\ exit_status \in {-1, 0}

\* C12 witness: the process has exited after the arguments did not parse.
C12_Witness == ParseFailed /\ Exited

DeleteFailed == Issued("delete") /\ ~Succeeded(CallsOf("delete")[1].resp)

\* C13: an invocation whose delete call failed returns what it returns when
\* the delete succeeds, Ok, and the failure is written as a warning.
C13_DeleteFailureNotEscalated ==
    (Done /\ DeleteFailed) =>
        /\ result = Ok
        /\ log[Len(log)].level = "warning"

\* C14: every call other than the delete that returned a non-success status
\* is reported by an error line that carries the message of its error body
\* when that body decodes, and the status text otherwise.
C14_UniformErrorMessage ==
    \A i \in 1..Len(calls) :
        (calls[i].op # "delete" /\ calls[i].resp.kind = "http" /\ ~is_success(calls[i].resp.status)) =>
            \E j \in 1..Len(log) :
                log[j].level = "error" /\ log[j].str = ErrorMessage(calls[i].resp)

\* C15: a listing command issues no upload POST, no track PUT and no commit,
\* and the committed catalog stays what it was before the invocation.
C15_ListingIsReadOnly ==
    Listing =>
        /\ ~Issued("upload") /\ ~Issued("track") /\ ~Issued("commit")
        /\ remote.catalog = InitRemote.catalog

\* C15 witness: a listing command has opened, listed and deleted its edit.
C15_Witness ==
    /\ Done /\ Listing
    /\ Len(calls) = 3
    /\ Succeeded(calls[3].resp)
    /\ remote.edit = "deleted"

\* C16: once the token has been resolved, it has been resolved exactly once
\* and the next step of run dispatches one of the three commands.
C16_ExactlyOneDispatched ==
    [][(pc = "dispatch") =>
          (tokens = 1 /\ pc' \in {"list_bundles", "list_tracks", "upload_bundle"})]_vars

\* C17: every DELETE request issued goes to the plain edit path.
C17_DeleteTargetsEditPath ==
    \A i \in 1..Len(calls) : calls[i].method = "DELETE" => calls[i].path = "edit"

\* The open call was issued and did not yield an edit id.
OpenFailed ==
    /\ Issued("open")
    /\ ~(Succeeded(calls[1].resp) /\ DecodesAs(calls[1].resp.body, "id"))

\* C18: once the open call has failed, the invocation is over, the open call
\* is the only call issued and the bundle file has not been read.
C18_OpenFailureTerminates ==
    OpenFailed =>
        /\ Len(calls) = 1
        /\ file_reads = 0
        /\ pc \in {"done", "exited"}

\* C18 witness: an upload invocation has ended on a non-success open status.
C18_Witness ==
    /\ Done /\ cmd = "Upload" /\ OpenFailed
    /\ calls[1].resp.kind = "http" /\ ~is_success(calls[1].resp.status)

Ops == [i \in 1..Len(calls) |-> calls[i].op]

IsPrefix(s, t) == Len(s) <= Len(t) /\ \A i \in 1..Len(s) : s[i] = t[i]

\* C19: in an upload invocation the calls issued so far are a prefix of
\* open, upload, track, commit, or a non-empty prefix of open, upload, track
\* followed by one delete; a second call is issued only after the open
\* yielded an id; and the invocation is over once a commit or a delete has
\* been issued.
C19_UploadCallOrder ==
    cmd = "Upload" =>
        /\ \/ IsPrefix(Ops, <<"open", "upload", "track", "commit">>)
           \/ /\ Len(Ops) \in 2..4
              /\ Ops[Len(Ops)] = "delete"
              /\ IsPrefix(SubSeq(Ops, 1, Len(Ops) - 1), <<"open", "upload", "track">>)
        /\ Len(calls) >= 2 => ~OpenFailed
        /\ (Issued("commit") \/ Issued("delete")) => pc \in {"done", "exited"}

\* C19 witness: an upload invocation has issued all four calls.
C19_Witness == Done /\ cmd = "Upload" /\ Ops = <<"open", "upload", "track", "commit">>

TrackNameLines == SelectSeq(log, LAMBDA l : l.text = "Track")

\* C20: when list-tracks got a success response holding a tracks list, with
\* or without versionCodes in its releases, it has written one line per
\* track name, in order, and issued the delete by the time it returns.
C20_OptionalVersionCodes ==
    ( /\ Done /\ cmd = "ListTracks" /\ Len(calls) >= 2
      /\ Succeeded(calls[2].resp) /\ calls[2].resp.body.t = "tracks" ) =>
        /\ Len(TrackNameLines) = Len(calls[2].resp.body.tracks)
        /\ \A i \in 1..Len(TrackNameLines) :
              TrackNameLines[i].str = calls[2].resp.body.tracks[i].name
        /\ Issued("delete")

====
